---- MODULE Spec2Model ----
(***************************************************************************)
(* A model of the WebDAV FUSE filesystem of rust_webdav:                   *)
(*   - WebdavDrive::list (src/src/webdav.rs) parsing a multistatus answer  *)
(*     into Props,                                                         *)
(*   - the inode directory and file registry of FuseFilesystem             *)
(*     (src/src/filesystem.rs),                                            *)
(*   - the kernel-facing handlers lookup, readdir and getattr.             *)
(* The kernel dispatches one callback at a time and each handler runs to   *)
(* completion, so every handler is one atomic action.  A Rust panic in a   *)
(* handler unwinds out of the session loop: the mount is gone afterwards.  *)
(***************************************************************************)
EXTENDS Integers, Sequences, FiniteSets, TLC

VARIABLES
    inodes,      \* FuseFilesystem.inodes : InodeId -> Inode (children, parent)
    files,       \* FuseFilesystem.files  : InodeId -> File
    next_inode,  \* FuseFilesystem.next_inode
    remote,      \* what the WebDAV server answers to a PROPFIND
    reply,       \* the request last served and how it was answered
    prev,        \* summary of the request served before that one
    handed,      \* history: every fetched entry a readdir2 result carried,
                 \* with its id and whether the reply buffer took it
    crashed      \* a handler panicked (or never returned): mount is dead

vars == <<inodes, files, next_inode, remote, reply, prev, handed, crashed>>

(***************************************************************************)
(* Bounds of the model.                                                    *)
(***************************************************************************)
MaxInode     == 4   \* next_inode never passes MaxInode + 1
MaxIno       == 2   \* the kernel asks about inode numbers 1..MaxIno
MaxResponses == 2   \* response blocks in one multistatus document
MaxOffset    == 1   \* readdir offsets 0..MaxOffset
MaxBuf       == 3   \* entries the kernel's reply buffer can take
MaxNodes     == 3   \* Nodes of a populated inode directory
MaxListing   == 3   \* entries of a listing that is read page by page
MaxPageInode == 10  \* next_inode never passes MaxPageInode + 1 in such a read

(***************************************************************************)
(* Program constants.                                                      *)
(***************************************************************************)
FUSE_ROOT_ID == 1
FirstInode   == 2
BlockSize    == 4096

InodeIds == 1..MaxIno
Names    == {"a.txt", "zzz"}
Offsets  == 0..MaxOffset
BufCaps  == 2..MaxBuf

(***************************************************************************)
(* XML of a multistatus answer.  An element is its tag, its text (a        *)
(* sequence of characters or tokens, empty when the element has no text:   *)
(* roxmltree gives None for it) and whether it has child elements.         *)
(***************************************************************************)
El(tag, text, kids) == [tag |-> tag, text |-> text, hasChildren |-> kids]

\* A response block: its href (missing, without text, or a path given by
\* its segments) and its first prop element (possibly missing).
Block(hrefKind, path, hasProp, prop) ==
    [hrefKind |-> hrefKind, path |-> path, hasProp |-> hasProp, prop |-> prop]

DateOk   == <<"Thu, 01 Jan 1970 00:00:10 +0000">>
DateBad  == <<"yesterday">>
EtagE1   == <<"\"", "e", "1", "\"">>

BlockFile ==
    Block("text", <<"docs", "a.txt">>, TRUE,
          << El("getlastmodified", DateOk, FALSE),
             El("resourcetype", <<>>, FALSE),
             El("getcontentlength", <<"1", "0">>, FALSE),
             El("getetag", EtagE1, FALSE) >>)
BlockSub ==
    Block("text", <<"docs", "sub", ".">>, TRUE,
          << El("resourcetype", <<>>, TRUE),
             El("quota-used-bytes", <<"7">>, FALSE) >>)
BlockNoType ==
    Block("text", <<"docs", "zzz">>, TRUE,
          << El("getcontentlength", <<"3">>, FALSE) >>)
BlockBadSize ==
    Block("text", <<"docs", "a.txt">>, TRUE,
          << El("resourcetype", <<>>, FALSE),
             El("getcontentlength", <<"1", "x">>, FALSE) >>)
\* The response blocks the server's documents are made of.
Blocks == {BlockFile, BlockSub, BlockNoType, BlockBadSize}

SeqsUpTo(S, n) == UNION {[1..k -> S] : k \in 0..n}

\* What the server can answer: no usable answer, a body that is not XML,
\* or a multistatus document.
Remotes ==
    {[kind |-> "failed", doc |-> <<>>], [kind |-> "notxml", doc |-> <<>>]}
    \cup {[kind |-> "ok", doc |-> d] : d \in SeqsUpTo(Blocks, MaxResponses)}

(***************************************************************************)
(* Conversions used by WebdavDrive::list.                                  *)
(***************************************************************************)
Digits == <<"0", "1", "2", "3", "4", "5", "6", "7", "8", "9">>
IsDigit(c) == \E i \in 1..10 : Digits[i] = c
DigitVal(c) == (CHOOSE i \in 1..10 : Digits[i] = c) - 1

RECURSIVE DigitsValue(_)
DigitsValue(cs) ==
    IF cs = <<>> THEN 0
    ELSE 10 * DigitsValue(SubSeq(cs, 1, Len(cs) - 1)) + DigitVal(cs[Len(cs)])

\* parse::<u64> followed by unwrap_or_default: a malformed text becomes 0.
ParseU64OrZero(text) ==
    LET body == IF text # <<>> /\ text[1] = "+" THEN Tail(text) ELSE text
    IN  IF body = <<>> \/ \E i \in 1..Len(body) : ~IsDigit(body[i])
        THEN [ok |-> TRUE, val |-> 0]
        ELSE [ok |-> TRUE, val |-> DigitsValue(body)]

\* str::parse::<u64>: an optional "+", then at least one digit and digits
\* only.  The texts of the model are short, so the value fits in u64.
ParseU64(text) ==
    LET body == IF text # <<>> /\ text[1] = "+" THEN Tail(text) ELSE text
    IN  IF body = <<>> \/ \E i \in 1..Len(body) : ~IsDigit(body[i])
        THEN [ok |-> FALSE, val |-> 0]
        ELSE [ok |-> TRUE, val |-> DigitsValue(body)]

\* DateTime::parse_from_rfc2822(..).timestamp(): chrono is a library; the
\* texts of the model are one well-formed date and one that is not.
ParseRfc2822(text) ==
    IF text = DateOk THEN [ok |-> TRUE, val |-> 10]
    ELSE [ok |-> FALSE, val |-> 0]

\* str::replace('"', "")
StripQuotes(text) == SelectSeq(text, LAMBDA c : c # "\"")

(***************************************************************************)
(* Prop and PropBuilder (src/src/prop.rs).                                 *)
(***************************************************************************)
PropBuilderNew ==
    [etag |-> <<>>, path |-> <<>>, size |-> 0, last_modified |-> -1,
     resource_type |-> "Invalid"]

\* One arm of the match over a prop child: the builder after the element,
\* or the error that ends list.
ApplyElement(propb, el) ==
    CASE el.tag = "getlastmodified" ->
           IF el.text = <<>>
           THEN [err |-> "XMLTagEmptyWhenItShouldNot", propb |-> propb]
           ELSE IF ~ParseRfc2822(el.text).ok
           THEN [err |-> "DateTimeConversionError", propb |-> propb]
           ELSE [err |-> "",
                 propb |-> [propb EXCEPT
                              !.last_modified = ParseRfc2822(el.text).val]]
      [] el.tag = "resourcetype" ->
           [err |-> "",
            propb |-> [propb EXCEPT
                         !.resource_type =
                            IF el.hasChildren THEN "Collection" ELSE "File"]]
      [] el.tag = "getcontentlength" ->
           IF el.text = <<>>
           THEN [err |-> "XMLTagEmptyWhenItShouldNot", propb |-> propb]
           ELSE IF ~ParseU64(el.text).ok
           THEN [err |-> "PropSizeError", propb |-> propb]
           ELSE [err |-> "",
                 propb |-> [propb EXCEPT !.size = ParseU64(el.text).val]]
      [] el.tag = "getetag" ->
           IF el.text = <<>>
           THEN [err |-> "XMLTagEmptyWhenItShouldNot", propb |-> propb]
           ELSE [err |-> "",
                 propb |-> [propb EXCEPT !.etag = StripQuotes(el.text)]]
      [] OTHER -> [err |-> "", propb |-> propb]

\* The loop over props.children(): stops at the first error.
RECURSIVE ApplyElements(_, _)
ApplyElements(propb, els) ==
    IF els = <<>> THEN [err |-> "", propb |-> propb]
    ELSE LET r == ApplyElement(propb, Head(els))
         IN  IF r.err # "" THEN r ELSE ApplyElements(r.propb, Tail(els))

\* The body of the loop over the response blocks.
ParseResponse(b) ==
    IF ~b.hasProp
    THEN [err |-> "XMLTagEmptyWhenItShouldNot", propb |-> PropBuilderNew]
    ELSE IF b.hrefKind # "text"
    THEN [err |-> "XMLTagEmptyWhenItShouldNot", propb |-> PropBuilderNew]
    ELSE ApplyElements([PropBuilderNew EXCEPT !.path = b.path], b.prop)

\* ParseResponses putting each record in front of the ones before it.
RECURSIVE ParseResponsesPrepend(_, _)
ParseResponsesPrepend(blocks, ret) ==
    IF blocks = <<>> THEN [err |-> "", props |-> ret]
    ELSE LET r == ParseResponse(Head(blocks))
         IN  IF r.err # "" THEN [err |-> r.err, props |-> <<>>]
             ELSE ParseResponsesPrepend(Tail(blocks), <<r.propb>> \o ret)

\* The loop over the response blocks: one Prop pushed per block.
RECURSIVE ParseResponses(_, _)
ParseResponses(blocks, ret) ==
    IF blocks = <<>> THEN [err |-> "", props |-> ret]
    ELSE LET r == ParseResponse(Head(blocks))
         IN  IF r.err # "" THEN [err |-> r.err, props |-> <<>>]
             ELSE ParseResponses(Tail(blocks), Append(ret, r.propb))

\* WebdavDrive::list on the server's answer.
List(answer) ==
    CASE answer.kind = "failed" -> [err |-> "WebDavReqeustFailed", props |-> <<>>]
      [] answer.kind = "notxml" -> [err |-> "XMLDocumentParseError", props |-> <<>>]
      [] OTHER -> ParseResponses(answer.doc, <<>>)

(***************************************************************************)
(* File registry records (src/src/filesystem.rs).                          *)
(***************************************************************************)
\* Path::file_name of an absolute href: "." segments are dropped by the
\* normalisation of components; a path that is the root or ends in ".." has
\* no file name.
FileName(path) ==
    LET segs == SelectSeq(path, LAMBDA s : s # ".")
    IN  IF segs = <<>> \/ segs[Len(segs)] = ".."
        THEN [some |-> FALSE, name |-> ""]
        ELSE [some |-> TRUE, name |-> segs[Len(segs)]]

NoFile ==
    [name |-> "", size |-> 0, mtime |-> 0, is_directory |-> FALSE,
     state |-> "RemoteOnly", etag |-> <<>>]

\* impl From<Prop> for File: panics on resource type Invalid and on a path
\* without a file name.
FromProp(value) ==
    IF value.resource_type = "Invalid" THEN [panic |-> TRUE, file |-> NoFile]
    ELSE IF ~FileName(value.path).some THEN [panic |-> TRUE, file |-> NoFile]
    ELSE [panic |-> FALSE,
          file  |-> [name |-> FileName(value.path).name,
                     size |-> value.size,
                     mtime |-> value.last_modified,
                     is_directory |-> (value.resource_type = "Collection"),
                     state |-> "RemoteOnly",
                     etag |-> value.etag]]

init_root ==
    [name |-> "/", size |-> 0, mtime |-> 0, is_directory |-> TRUE,
     state |-> "Local", etag |-> <<"r", "o", "o", "t">>]

fuser_filetype(attr) == IF attr.is_directory THEN "Directory" ELSE "RegularFile"

NoAttr == [ino |-> 0, size |-> 0, blocks |-> 0, mtime |-> 0, kind |-> "none"]

to_file_attr(file, inode) ==
    [ino |-> inode, size |-> file.size, blocks |-> file.size \div BlockSize,
     mtime |-> file.mtime, kind |-> fuser_filetype(file)]

(***************************************************************************)
(* Inode directory.                                                        *)
(***************************************************************************)
NoChildren == [n \in {} |-> 0]

InodeNew(parent) == [children |-> NoChildren, parent |-> parent]

add_child(node, name, inode) ==
    [node EXCEPT !.children =
        [n \in (DOMAIN node.children) \cup {name} |->
            IF n = name THEN inode ELSE node.children[n]]]

is_filesystem_root(id) == id = FUSE_ROOT_ID

\* next_inode without the increment.
NextInodeStuck(ino) == ino

\* FuseFilesystem::next_inode: the id handed out is the counter ino; this is
\* the counter afterwards.
NextInodeAfter(ino) == ino + 1

\* lookup_ answering a missing parent or child with a defaulted attribute.
lookup_Defaulted(parent, name_of_file) ==
    IF parent \in DOMAIN inodes
       /\ name_of_file \in DOMAIN inodes[parent].children
       /\ inodes[parent].children[name_of_file] \in DOMAIN files
    THEN [err |-> "",
          attr |-> to_file_attr(files[inodes[parent].children[name_of_file]],
                                inodes[parent].children[name_of_file])]
    ELSE [err |-> "", attr |-> NoAttr]

\* FuseFilesystem::lookup_
lookup_(parent, name_of_file) ==
    IF parent \notin DOMAIN inodes
    THEN [err |-> "ParentInodeNotFound", attr |-> NoAttr]
    ELSE LET parent_inode == inodes[parent]
         IN  IF name_of_file \notin DOMAIN parent_inode.children
             THEN [err |-> "FileDoesNotExist", attr |-> NoAttr]
             ELSE LET inode == parent_inode.children[name_of_file]
                  IN  IF inode \notin DOMAIN files
                      THEN [err |-> "ChildInodeNotFound", attr |-> NoAttr]
                      ELSE [err |-> "", attr |-> to_file_attr(files[inode], inode)]

\* FuseFilesystem::getattributes
getattributes(inode) ==
    IF inode \notin DOMAIN files
    THEN [err |-> "InodeNotFound", attr |-> NoAttr]
    ELSE [err |-> "", attr |-> to_file_attr(files[inode], inode)]

\* FuseFilesystem::_full_path_of_inode.  The while loop never changes
\* parent_inode: under a parent that is not the root it ends only when the
\* recursive call fails, and otherwise never.  fuel bounds the recursion of
\* the definition; a chain longer than the directory is a cycle, on which
\* the code recurses without end.
RECURSIVE PathVec(_, _)
PathVec(inode, fuel) ==
    IF inode \notin DOMAIN files
    THEN [status |-> "err", err |-> "FileEntryMissing", path |-> <<>>]
    ELSE IF inode \notin DOMAIN inodes
    THEN [status |-> "err", err |-> "ParentInodeNotFound", path |-> <<>>]
    ELSE IF is_filesystem_root(inodes[inode].parent)
    THEN [status |-> "ok", err |-> "", path |-> <<files[inode].name>>]
    ELSE IF fuel = 0
    THEN [status |-> "diverge", err |-> "", path |-> <<>>]
    ELSE LET r == PathVec(inodes[inode].parent, fuel - 1)
         IN  IF r.status = "err" THEN r
             ELSE [status |-> "diverge", err |-> "", path |-> <<>>]

_full_path_of_inode(inode) == PathVec(inode, Cardinality(DOMAIN inodes))

Reverse(s) == [i \in 1..Len(s) |-> s[Len(s) + 1 - i]]

\* FuseFilesystem::full_path_of_inode: the segments, root first.
full_path_of_inode(inode) ==
    LET r == _full_path_of_inode(inode)
    IN  [r EXCEPT !.path = Reverse(r.path)]

\* The server's answer to a PROPFIND of full_path with Depth 1.
DriveList(full_path) == List(remote)

Entry(ino, kind, name) == [ino |-> ino, kind |-> kind, name |-> name]

\* DotEntries without the test of the offset.
DotEntriesAlways(inode, offset) ==
    << Entry(inodes[inode].parent, "Directory", ".."),
       Entry(inode, "Directory", ".") >>

\* DotEntries leaving the ".." of the root without an id.
DotEntriesUnsetParent(inode, offset) ==
    IF offset = 0
    THEN << Entry(IF is_filesystem_root(inode) THEN 0
                  ELSE inodes[inode].parent, "Directory", ".."),
            Entry(inode, "Directory", ".") >>
    ELSE <<>>

\* The "." and ".." entries readdir2 puts in front.
DotEntries(inode, offset) ==
    IF offset = 0
    THEN << Entry(inodes[inode].parent, "Directory", ".."),
            Entry(inode, "Directory", ".") >>
    ELSE <<>>

Min(a, b) == IF a < b THEN a ELSE b

\* SkipFiles without the skip.
SkipFilesAll(props, offset) ==
    LET conv == [i \in 1..Len(props) |-> FromProp(props[i])]
    IN  IF \E i \in 1..Len(props) : conv[i].panic
        THEN [panic |-> TRUE, files |-> <<>>]
        ELSE [panic |-> FALSE,
              files |-> [i \in 1..Len(props) |-> conv[i].file]]

\* The listing after map(into).skip(offset): the closure runs on the skipped
\* props too.
SkipFiles(props, offset) ==
    LET conv == [i \in 1..Len(props) |-> FromProp(props[i])]
    IN  IF \E i \in 1..Len(props) : conv[i].panic
        THEN [panic |-> TRUE, files |-> <<>>]
        ELSE [panic |-> FALSE,
              files |-> [i \in 1..(Len(props) - Min(offset, Len(props))) |->
                            conv[i + offset].file]]

\* The ids readdir2 gives to the fetched entries, one next_inode() each.
RECURSIVE AllocEntries(_, _)
AllocEntries(fs, ino) ==
    IF fs = <<>> THEN <<>>
    ELSE <<Entry(ino, fuser_filetype(Head(fs)), Head(fs).name)>>
         \o AllocEntries(Tail(fs), NextInodeAfter(ino))

RECURSIVE CounterAfter(_, _)
CounterAfter(n, ino) ==
    IF n = 0 THEN ino ELSE CounterAfter(n - 1, NextInodeAfter(ino))

\* FuseFilesystem::readdir2: its result and the state it leaves.  listed is
\* the local _files, fetched the entries made of them.
readdir2(inode, offset) ==
    LET fail(st, e) ==
            [status |-> st, err |-> e, result |-> <<>>, fetched |-> <<>>,
             listed |-> <<>>,
             next_inode |-> next_inode, inodes |-> inodes, files |-> files]
    IN
    IF inode \notin DOMAIN inodes THEN fail("err", "InodeNotFound")
    ELSE LET p == full_path_of_inode(inode) IN
    IF p.status # "ok" THEN fail(p.status, p.err)
    ELSE LET l == DriveList(p.path) IN
    IF l.err # "" THEN fail("err", l.err)
    ELSE LET s == SkipFiles(l.props, offset) IN
    IF s.panic THEN fail("panic", "")
    ELSE LET fetched == AllocEntries(s.files, next_inode) IN
         [status |-> "ok", err |-> "",
          result |-> DotEntries(inode, offset) \o fetched,
          fetched |-> fetched,
          listed |-> s.files,
          next_inode |-> CounterAfter(Len(s.files), next_inode),
          inodes |-> inodes, files |-> files]

(***************************************************************************)
(* The kernel-facing handlers (impl Filesystem for FuseFilesystem).        *)
(***************************************************************************)
NoReply ==
    [op |-> "none", ino |-> 0, name |-> "", offset |-> 0, outcome |-> "none",
     err |-> "", attr |-> NoAttr, result |-> <<>>, fetched |-> <<>>,
     entries |-> <<>>, path |-> <<>>, props |-> <<>>]

\* What is kept of a request once the next one is served.
Summary(r) ==
    [op |-> r.op, ino |-> r.ino, name |-> r.name, offset |-> r.offset,
     outcome |-> r.outcome, attr_ino |-> r.attr.ino, fetched |-> r.fetched]

\* What reply.add accepts: the buffer takes cap entries, each with the
\* offset idx of its position in the result.
Delivered(result, cap) ==
    [i \in 1..Min(cap, Len(result)) |->
        [ino |-> result[i].ino, offset |-> i - 1, kind |-> result[i].kind,
         name |-> result[i].name]]

\* Filesystem::readdir, served while the counter stays within limit.
ReaddirUpTo(ino, offset, cap, limit) ==
    \E r \in {readdir2(ino, offset)} :
    /\ ~crashed
    /\ r.next_inode <= limit
    /\ prev' = Summary(reply)
    /\ inodes' = r.inodes
    /\ files' = r.files
    /\ next_inode' = r.next_inode
    /\ remote' = remote
    /\ IF r.status = "ok"
       THEN /\ reply' = [NoReply EXCEPT !.op = "readdir", !.ino = ino,
                            !.offset = offset, !.outcome = "dir",
                            !.result = r.result, !.fetched = r.fetched,
                            !.entries = Delivered(r.result, cap)]
            /\ handed' = handed \cup
                  {[dir |-> ino, name |-> r.fetched[i].name,
                    id |-> r.fetched[i].ino, size |-> r.listed[i].size,
                    offset |-> offset,
                    sent |-> (Len(r.result) - Len(r.fetched) + i <= cap)] :
                      i \in 1..Len(r.fetched)}
            /\ crashed' = FALSE
       ELSE /\ reply' = [NoReply EXCEPT !.op = "readdir", !.ino = ino,
                            !.offset = offset,
                            !.outcome = IF r.status = "diverge" THEN "hang"
                                        ELSE "panic",
                            !.err = r.err]
            /\ handed' = handed
            /\ crashed' = TRUE

Readdir(ino, offset, cap) == ReaddirUpTo(ino, offset, cap, MaxInode + 1)

\* Filesystem::getattr
Getattr(ino) ==
    \E a \in {getattributes(ino)} :
    /\ ~crashed
    /\ prev' = Summary(reply)
    /\ UNCHANGED <<inodes, files, next_inode, remote, handed>>
    /\ IF a.err = ""
       THEN /\ reply' = [NoReply EXCEPT !.op = "getattr", !.ino = ino,
                            !.outcome = "attr", !.attr = a.attr]
            /\ crashed' = FALSE
       ELSE /\ reply' = [NoReply EXCEPT !.op = "getattr", !.ino = ino,
                            !.outcome = "panic", !.err = a.err]
            /\ crashed' = TRUE

\* Filesystem::lookup
Lookup(parent, name) ==
    \E a \in {lookup_(parent, name)} :
    /\ ~crashed
    /\ prev' = Summary(reply)
    /\ UNCHANGED <<inodes, files, next_inode, remote, handed, crashed>>
    /\ IF a.err = ""
       THEN reply' = [NoReply EXCEPT !.op = "lookup", !.ino = parent,
                         !.name = name, !.outcome = "entry", !.attr = a.attr]
       ELSE reply' = [NoReply EXCEPT !.op = "lookup", !.ino = parent,
                         !.name = name, !.outcome = "ENOENT", !.err = a.err]

\* init without the insertion of the root File.
InitNoRootFile ==
    /\ inodes = [i \in {FUSE_ROOT_ID} |-> InodeNew(FUSE_ROOT_ID)]
    /\ files = [i \in {} |-> init_root]
    /\ next_inode = FirstInode
    /\ remote \in Remotes
    /\ reply = NoReply
    /\ prev = Summary(NoReply)
    /\ handed = {}
    /\ crashed = FALSE

\* FuseFilesystem::init
Init ==
    /\ inodes = [i \in {FUSE_ROOT_ID} |-> InodeNew(FUSE_ROOT_ID)]
    /\ files = [i \in {FUSE_ROOT_ID} |-> init_root]
    /\ next_inode = FirstInode
    /\ remote \in Remotes
    /\ reply = NoReply
    /\ prev = Summary(NoReply)
    /\ handed = {}
    /\ crashed = FALSE

Next ==
    \/ \E ino \in InodeIds, offset \in Offsets, cap \in BufCaps :
          Readdir(ino, offset, cap)
    \/ \E ino \in InodeIds : Getattr(ino)
    \/ \E parent \in InodeIds, name \in Names : Lookup(parent, name)

Spec == Init /\ [][Next]_vars

(***************************************************************************)
(* WebdavDrive::list as a function of the server's answer: the answer is   *)
(* any document made of well-formed and of faulty response blocks.         *)
(***************************************************************************)
BlockBadDate ==
    Block("text", <<"docs", "old.txt">>, TRUE,
          << El("resourcetype", <<>>, FALSE),
             El("getlastmodified", DateBad, FALSE) >>)
BlockNoProp ==
    Block("text", <<"docs", "sub">>, FALSE, <<>>)
BlockNoHref ==
    Block("missing", <<>>, TRUE,
          << El("resourcetype", <<>>, FALSE),
             El("getetag", <<>>, FALSE) >>)
BlockPlusSize ==
    Block("text", <<"docs", "p.bin">>, TRUE,
          << El("getcontentlength", <<"+", "5">>, FALSE),
             El("resourcetype", <<>>, FALSE) >>)

ListBlocks == Blocks \cup {BlockBadDate, BlockNoProp, BlockNoHref, BlockPlusSize}

ListRemotes ==
    {[kind |-> "failed", doc |-> <<>>], [kind |-> "notxml", doc |-> <<>>]}
    \cup {[kind |-> "ok", doc |-> d] : d \in SeqsUpTo(ListBlocks, MaxResponses)}

ListInit ==
    /\ inodes = [i \in {FUSE_ROOT_ID} |-> InodeNew(FUSE_ROOT_ID)]
    /\ files = [i \in {FUSE_ROOT_ID} |-> init_root]
    /\ next_inode = FirstInode
    /\ remote \in ListRemotes
    /\ reply = NoReply
    /\ prev = Summary(NoReply)
    /\ handed = {}
    /\ crashed = FALSE

\* A call of self.drive.list, as readdir2 makes it.
ListCall ==
    \E l \in {DriveList(<<"/">>)} :
    /\ ~crashed
    /\ prev' = Summary(reply)
    /\ UNCHANGED <<inodes, files, next_inode, remote, handed, crashed>>
    /\ reply' = [NoReply EXCEPT !.op = "list",
                    !.outcome = IF l.err = "" THEN "props" ELSE "error",
                    !.err = l.err, !.props = l.props]

ListNext == ListCall

ListSpec == ListInit /\ [][ListNext]_vars

(***************************************************************************)
(* full_path_of_inode as a function of the directory: the directory is any *)
(* populated tree (every Node but the root is a child of its parent under  *)
(* the name of its File) and the path of an id is asked for.               *)
(***************************************************************************)
SegNames == {"docs", "x"}

\* The directory of the tree with parents par and names nm over 1..n.
TreeInodes(n, par, nm) ==
    [i \in 1..n |->
        [children |->
            [name \in {nm[j] : j \in {k \in 2..n : par[k] = i}} |->
                CHOOSE j \in 2..n : par[j] = i /\ nm[j] = name],
         parent |-> IF i = FUSE_ROOT_ID THEN FUSE_ROOT_ID ELSE par[i]]]

TreeFiles(n, nm) ==
    [i \in 1..n |->
        IF i = FUSE_ROOT_ID THEN init_root
        ELSE [NoFile EXCEPT !.name = nm[i], !.is_directory = TRUE]]

PathInit ==
    \E n \in 1..MaxNodes :
    \E par \in [2..n -> 1..MaxNodes], nm \in [2..n -> SegNames] :
        /\ \A i \in 2..n : par[i] < i
        /\ \A i, j \in 2..n : (i # j /\ par[i] = par[j]) => nm[i] # nm[j]
        /\ inodes = TreeInodes(n, par, nm)
        /\ files = TreeFiles(n, nm)
        /\ next_inode = n + 1
        /\ remote = [kind |-> "ok", doc |-> <<>>]
        /\ reply = NoReply
        /\ prev = Summary(NoReply)
        /\ handed = {}
        /\ crashed = FALSE

\* A call of full_path_of_inode(id), as readdir2 makes it.
PathOf(id) ==
    \E r \in {full_path_of_inode(id)} :
    /\ ~crashed
    /\ prev' = Summary(reply)
    /\ UNCHANGED <<inodes, files, next_inode, remote, handed>>
    /\ reply' = [NoReply EXCEPT !.op = "path_of", !.ino = id,
                    !.outcome = CASE r.status = "ok" -> "path"
                                  [] r.status = "err" -> "error"
                                  [] OTHER -> "hang",
                    !.err = r.err, !.path = r.path]
    /\ crashed' = (r.status = "diverge")

PathNext == \E id \in 1..(MaxNodes + 1) : PathOf(id)

PathSpec == PathInit /\ [][PathNext]_vars

(***************************************************************************)
(* A paginated read of the root by the kernel: it starts at offset 0 and,  *)
(* each time reply.add reports the buffer full, asks again with the offset *)
(* readdir attached to the last entry the buffer took.  The listing is a   *)
(* document of well-formed blocks and the buffer takes the same number of  *)
(* entries in every call.                                                  *)
(***************************************************************************)
PageBlocks == {BlockFile, BlockSub, BlockPlusSize}

PageRemotes ==
    {[kind |-> "ok", doc |-> d] : d \in SeqsUpTo(PageBlocks, MaxListing)}

PageInit ==
    /\ inodes = [i \in {FUSE_ROOT_ID} |-> InodeNew(FUSE_ROOT_ID)]
    /\ files = [i \in {FUSE_ROOT_ID} |-> init_root]
    /\ next_inode = FirstInode
    /\ remote \in PageRemotes
    /\ reply = NoReply
    /\ prev = Summary(NoReply)
    /\ handed = {}
    /\ crashed = FALSE

\* reply.add returned true in the readdir that gave r: an entry of the
\* result did not go into the buffer.
BufferFilled(r) ==
    r.op = "readdir" /\ r.outcome = "dir" /\ Len(r.entries) < Len(r.result)

\* The first call of the read.
PageStart(cap) ==
    /\ reply.op = "none"
    /\ ReaddirUpTo(FUSE_ROOT_ID, 0, cap, MaxPageInode + 1)

\* The call that follows a full buffer.
PageNext ==
    /\ BufferFilled(reply)
    /\ ReaddirUpTo(reply.ino, reply.entries[Len(reply.entries)].offset,
                   Len(reply.entries), MaxPageInode + 1)

PageStep ==
    \/ \E cap \in BufCaps : PageStart(cap)
    \/ PageNext

PageSpec == PageInit /\ [][PageStep]_vars

(***************************************************************************)
(* What the properties speak about.                                        *)
(***************************************************************************)
\* The files a listing of the server's answer converts to (none when list
\* fails or the conversion panics).
ListedFiles ==
    LET l == List(remote)
    IN  IF l.err # "" THEN <<>>
        ELSE IF SkipFiles(l.props, 0).panic THEN <<>>
        ELSE SkipFiles(l.props, 0).files

\* name is the name of exactly one entry of the server's listing.
UniqueListed(name) ==
    Cardinality({i \in 1..Len(ListedFiles) : ListedFiles[i].name = name}) = 1

ReaddirOk(r) == r.op = "readdir" /\ r.outcome = "dir"

\* The (parent, name) pairs under which id is a child in the directory.
ChildEntriesOf(id) ==
    {pn \in (DOMAIN inodes) \X
            (UNION {DOMAIN inodes[p].children : p \in DOMAIN inodes}) :
        /\ pn[2] \in DOMAIN inodes[pn[1]].children
        /\ inodes[pn[1]].children[pn[2]] = id}

\* C1: when readdir(dir, 0) has just succeeded and reported (id, kind, name)
\* for a remote child, the lookup(dir, name) that follows succeeds with an
\* attribute whose inode number is id and whose size is the listed size.
C1_LookupAfterReaddir ==
    \A i \in 1..Len(prev.fetched) :
        ( /\ ReaddirOk(prev) /\ prev.offset = 0
          /\ UniqueListed(prev.fetched[i].name)
          /\ reply.op = "lookup"
          /\ reply.ino = prev.ino
          /\ reply.name = prev.fetched[i].name )
        => /\ reply.outcome = "entry"
           /\ reply.attr.ino = prev.fetched[i].ino
           /\ \E h \in handed : /\ h.id = prev.fetched[i].ino
                                /\ h.size = reply.attr.size

\* C2: two consecutive lookup(parent, name) calls, for a name the server
\* lists under an existing parent, both succeed and return the same InodeId.
C2_ConsecutiveLookups ==
    ( /\ prev.op = "lookup" /\ reply.op = "lookup"
      /\ prev.ino = reply.ino /\ prev.name = reply.name
      /\ reply.ino \in DOMAIN inodes
      /\ UniqueListed(reply.name) )
    => /\ prev.outcome = "entry"
       /\ reply.outcome = "entry"
       /\ reply.attr.ino = prev.attr_ino

\* C3: with the listing unchanged, every readdir call that reports the entry
\* of a directory under a name reports it with the same InodeId.
C3_StableIds ==
    \A h1, h2 \in handed :
        (h1.dir = h2.dir /\ h1.name = h2.name /\ UniqueListed(h1.name))
        => h1.id = h2.id

\* C4: every id a successful readdir returns for a fetched entry is, when
\* readdir returns, a child of dir under the entry's name and has a File in
\* the registry, so that getattr of it succeeds.
C4_ReaddirRegisters ==
    ReaddirOk(reply) =>
        \A i \in 1..Len(reply.fetched) :
            UniqueListed(reply.fetched[i].name) =>
                /\ reply.fetched[i].name \in DOMAIN inodes[reply.ino].children
                /\ inodes[reply.ino].children[reply.fetched[i].name]
                      = reply.fetched[i].ino
                /\ reply.fetched[i].ino \in DOMAIN files
                /\ getattributes(reply.fetched[i].ino).err = ""

\* C5: the very first request, a lookup(parent, name) on an existing parent
\* without children, populates the parent first and so finds a name the
\* server lists.
C5_LookupPopulates ==
    ( /\ prev.op = "none" /\ reply.op = "lookup"
      /\ reply.ino \in DOMAIN inodes
      /\ UniqueListed(reply.name) )
    => reply.outcome = "entry"

\* C6: the result of a successful readdir contains "." and ".." exactly when
\* the offset is zero, and they are then its first two entries.
C6_DotEntries ==
    ReaddirOk(reply) =>
        LET res == reply.result
            dots == {i \in 1..Len(res) : res[i].name \in {".", ".."}}
        IN  /\ (reply.offset = 0) =>
                  /\ dots = {1, 2}
                  /\ {res[1].name, res[2].name} = {".", ".."}
            /\ (reply.offset # 0) => dots = {}

\* Both cases of C6 have happened: a listing with fetched entries read at
\* an offset above zero and then at offset zero.
C6_Witness ==
    /\ ReaddirOk(prev) /\ prev.offset > 0 /\ Len(prev.fetched) > 0
    /\ ReaddirOk(reply) /\ reply.offset = 0 /\ Len(reply.fetched) > 0

\* C7: every InodeId with a Node in the inode directory has a File in the
\* file registry.
C7_NodeHasRecord == DOMAIN inodes \subseteq DOMAIN files

\* A readdir has fetched entries and a getattr of a Node's id was served.
C7_Witness ==
    /\ handed # {}
    /\ reply.op = "getattr" /\ reply.outcome = "attr"
    /\ reply.ino \in DOMAIN inodes

\* C8: every id that was allocated and handed to the kernel is a child
\* entry of exactly one Node under exactly one name.
C8_OneChildEntry ==
    \A h \in handed : h.sent => Cardinality(ChildEntriesOf(h.id)) = 1

\* C9: each id readdir allocates is above every id allocated before it, in
\* this call or an earlier one, and is not the root id.
C9_Monotonic ==
    [][ ReaddirOk(reply') =>
          \A i \in 1..Len(reply'.fetched) :
              /\ reply'.fetched[i].ino # FUSE_ROOT_ID
              /\ \A h \in handed : h.id < reply'.fetched[i].ino
              /\ \A j \in 1..(i - 1) :
                    reply'.fetched[j].ino < reply'.fetched[i].ino ]_vars

\* Two readdir calls have allocated ids, the later one two of them.
C9_Witness ==
    /\ ReaddirOk(prev) /\ Len(prev.fetched) > 0
    /\ ReaddirOk(reply) /\ Len(reply.fetched) > 1

\* C10: getattr of an id without a File in the registry is answered with
\* not-found and does not abort the handler.
C10_GetattrNotFound ==
    (reply.op = "getattr" /\ reply.ino \notin DOMAIN files)
    => (reply.outcome = "ENOENT" /\ ~crashed)

\* C11: lookup(parent, name) replies not-found and does not crash whenever
\* parent is not in the inode directory or name is not a child of parent.
C11_LookupNotFound ==
    ( /\ reply.op = "lookup"
      /\ \/ reply.ino \notin DOMAIN inodes
         \/ reply.name \notin DOMAIN inodes[reply.ino].children )
    => (reply.outcome = "ENOENT" /\ ~crashed)

\* Both cases of C11 have happened in a row: a lookup under an id that is
\* not in the directory, after a lookup of a missing name under the root.
C11_Witness ==
    /\ prev.op = "lookup" /\ prev.ino \in DOMAIN inodes
    /\ prev.outcome = "ENOENT"
    /\ reply.op = "lookup" /\ reply.ino \notin DOMAIN inodes
    /\ reply.outcome = "ENOENT" /\ ~crashed

\* C12: when the Protocol Client's list call fails during readdir of an
\* existing directory, the handler answers with an error reply: neither a
\* listing nor a crash.
C12_ListFailureSurfaced ==
    ( /\ reply.op = "readdir"
      /\ reply.ino \in DOMAIN inodes
      /\ List(remote).err # "" )
    => (reply.outcome \in {"ENOENT", "EIO"} /\ ~crashed)

\* C13: a readdir or getattr of an id that is absent from the directory or
\* the registry fails only that request: getattr(root) can still be served.
C13_StructuralErrorIsolated ==
    ( \/ (reply.op = "readdir" /\ reply.ino \notin DOMAIN inodes)
      \/ (reply.op = "getattr" /\ reply.ino \notin DOMAIN files) )
    => ENABLED Getattr(FUSE_ROOT_ID)

\* The names on the parent chain of id, from the child of the root down to
\* id, in a directory that is a tree.
RECURSIVE SegmentsTo(_)
SegmentsTo(id) ==
    IF id = FUSE_ROOT_ID THEN <<>>
    ELSE SegmentsTo(inodes[id].parent) \o <<files[id].name>>

C16_NoInvalidReturned ==
    (reply.op = "list" /\ reply.err = "")
    => \A i \in 1..Len(reply.props) :
          reply.props[i].resource_type \in {"File", "Collection"}

\* C17: a document of N response blocks that list accepts gives exactly N
\* records, the i-th made of the i-th block.
C17_OneRecordPerResponse ==
    (reply.op = "list" /\ reply.err = "")
    => /\ Len(reply.props) = Len(remote.doc)
       /\ \A i \in 1..Len(remote.doc) :
             reply.props[i].path = remote.doc[i].path

\* list has accepted a document of two blocks with different paths.
C17_Witness ==
    /\ reply.op = "list" /\ reply.err = ""
    /\ Len(remote.doc) = 2
    /\ remote.doc[1].path # remote.doc[2].path

\* A text that is no decimal non-negative integer (a leading + allowed).
MalformedSize(text) ==
    /\ text # <<>>
    /\ LET body == IF text[1] = "+" THEN Tail(text) ELSE text
       IN  body = <<>> \/ \E i \in 1..Len(body) : ~IsDigit(body[i])

\* A text that is no RFC 2822 date.
MalformedDate(text) == text # <<>> /\ text # DateOk

HasBadSize(b) ==
    \E i \in 1..Len(b.prop) :
        b.prop[i].tag = "getcontentlength" /\ MalformedSize(b.prop[i].text)
HasBadDate(b) ==
    \E i \in 1..Len(b.prop) :
        b.prop[i].tag = "getlastmodified" /\ MalformedDate(b.prop[i].text)

AnyBadSize(doc) == \E k \in 1..Len(doc) : HasBadSize(doc[k])
AnyBadDate(doc) == \E k \in 1..Len(doc) : HasBadDate(doc[k])

\* Every block of doc has its prop and the text of its href, and none of
\* the elements list reads the text of is empty.
NoMissingField(doc) ==
    \A k \in 1..Len(doc) :
        /\ doc[k].hasProp
        /\ doc[k].hrefKind = "text"
        /\ \A i \in 1..Len(doc[k].prop) :
              doc[k].prop[i].tag \in
                  {"getlastmodified", "getcontentlength", "getetag"}
              => doc[k].prop[i].text # <<>>

\* C18 as stated: a malformed getcontentlength anywhere makes list return
\* SizeMalformed, a malformed getlastmodified anywhere TimestampMalformed,
\* and no record is returned in either case.
C18_AnyMalformedNamesItsError ==
    (reply.op = "list" /\ remote.kind = "ok")
    => /\ AnyBadSize(remote.doc) => reply.err = "PropSizeError"
       /\ AnyBadDate(remote.doc) => reply.err = "DateTimeConversionError"
       /\ (AnyBadSize(remote.doc) \/ AnyBadDate(remote.doc))
             => reply.props = <<>>

\* C18 amended: a malformed getcontentlength or getlastmodified anywhere
\* makes list return an error and no record; the error is SizeMalformed,
\* respectively TimestampMalformed, when the document has no fault of
\* another kind.
C18_MalformedIsError ==
    (reply.op = "list" /\ remote.kind = "ok")
    => /\ (AnyBadSize(remote.doc) \/ AnyBadDate(remote.doc))
             => (reply.err # "" /\ reply.props = <<>>)
       /\ ( /\ AnyBadSize(remote.doc) /\ ~AnyBadDate(remote.doc)
            /\ NoMissingField(remote.doc) )
             => reply.err = "PropSizeError"
       /\ ( /\ AnyBadDate(remote.doc) /\ ~AnyBadSize(remote.doc)
            /\ NoMissingField(remote.doc) )
             => reply.err = "DateTimeConversionError"

\* list has refused a document whose second block has a malformed size and
\* whose first block is well-formed.
C18_Witness ==
    /\ reply.op = "list" /\ reply.err = "PropSizeError"
    /\ Len(remote.doc) = 2
    /\ remote.doc[1] = BlockFile
    /\ HasBadSize(remote.doc[2])

C20_DotIds ==
    (ReaddirOk(reply) /\ reply.offset = 0) =>
        /\ \E i \in 1..Len(reply.result) : reply.result[i].name = "."
        /\ \E i \in 1..Len(reply.result) : reply.result[i].name = ".."
        /\ \A i \in 1..Len(reply.result) :
              /\ reply.result[i].name = "." =>
                    /\ reply.result[i].ino = reply.ino
                    /\ reply.result[i].kind = "Directory"
              /\ reply.result[i].name = ".." =>
                    /\ reply.result[i].ino = inodes[reply.ino].parent
                    /\ reply.result[i].kind = "Directory"
                    /\ reply.ino = FUSE_ROOT_ID =>
                          reply.result[i].ino = FUSE_ROOT_ID

\* The root was read at offset 0 with fetched entries after the dots.
C20_Witness ==
    /\ ReaddirOk(reply) /\ reply.offset = 0
    /\ reply.ino = FUSE_ROOT_ID
    /\ Len(reply.result) > 2

\* The entries named name that the buffer took in the calls so far.
DeliveredAs(name) == {h \in handed : h.sent /\ h.name = name}

\* C21: when a paginated read of an unchanged listing has ended (the last
\* call did not fill the buffer), every entry of the listing was delivered
\* exactly once: none dropped, none twice.
C21_PagedReadComplete ==
    (reply.op = "readdir" /\ reply.outcome = "dir" /\ ~BufferFilled(reply))
    => \A i \in 1..Len(ListedFiles) :
          Cardinality(DeliveredAs(ListedFiles[i].name))
             = Cardinality({j \in 1..Len(ListedFiles) :
                               ListedFiles[j].name = ListedFiles[i].name})

====
